---- MODULE Spec2Model ----
(***************************************************************************)
(* Model of the App component (src/src/App.tsx): the initial load that     *)
(* joins posts with users, and handleToggleComments, the per-post lazy     *)
(* comment fetch with show/hide.                                           *)
(*                                                                         *)
(* The component keeps its collection in a useState cell.  setPosts stores *)
(* a REFERENCE to an array; an async handleToggleComments call keeps using *)
(* the array it built before its await (updatedPosts), the item it read    *)
(* before its await (currentPost) and the index it found before its await  *)
(* (postIndex).  The model therefore keeps, for every call that is         *)
(* suspended at its await, those three captured values, and whether the    *)
(* call's array is the very array the state cell holds.                    *)
(*                                                                         *)
(* Optional fields and nullable values are sequences of length 0 or 1:     *)
(* << >> is undefined / null, << v >> is the value v.                      *)
(***************************************************************************)
EXTENDS Naturals, Sequences, FiniteSets

\* ------------------------------------------------------------- bounds

\* Posts the server serves in a session, at most.
MaxPosts == 2
\* Users the server serves, at most.
MaxUsers == 2
\* Comment fetches issued in one session, at most (all posts together).
MaxFetches == 3

PostIds == 1 .. MaxPosts
UserIds == 1 .. MaxUsers

\* ------------------------------------------------- values and truthiness

Undefined == << >>
Some(v) == << v >>

\* JavaScript truthiness of an optional boolean: undefined and false are falsy.
TruthyBool(o) == o = Some(TRUE)
\* Mutant of TruthyArray: the test written as comments && comments.length.
TruthyArray_NonEmpty(o) == o # Undefined /\ o[1] # << >>
\* JavaScript truthiness of an optional array: every array, the empty one
\* included, is truthy; only undefined is falsy.
TruthyArray(o) == o # Undefined
\* JavaScript truthiness of a string: only the empty string is falsy.
TruthyString(s) == s # ""
\* JavaScript truthiness of string | null.
TruthyError(o) == o # Undefined /\ TruthyString(o[1])

\* The text of line 61, written without its accent.
UnknownUser == "Usuario Desconhecido"
HttpError == "HTTP error!"
UnknownError == "Ocorreu um erro desconhecido"

\* ------------------------------------------------------------- inputs

Usernames == {"", "Bret"}

\* interface Post
Post(id, userId) == [id |-> id, userId |-> userId, title |-> "qui est esse", body |-> "est rerum"]
\* interface User
User(id, username) == [id |-> id, username |-> username]
\* interface Comment
Comment(postId, id) ==
    [postId |-> postId, id |-> id, name |-> "id labore", email |-> "Eliseo@gardner.biz", body |-> "laudantium"]

SeqsUpTo(S, n) == UNION {[1 .. k -> S] : k \in 0 .. n}

\* Every list of posts with ids in PostIds (repeated ids included) whose
\* userId is a user id or one more than the largest, which no user has.
AllPostLists ==
    SeqsUpTo({Post(i, u) : i \in PostIds, u \in 1 .. MaxUsers + 1}, MaxPosts)
\* Every list of users, repeated ids and empty usernames included.
AllUserLists ==
    SeqsUpTo({User(i, n) : i \in UserIds, n \in Usernames}, MaxUsers)

\* The feeds of a session: posts 1..n in order, post i written by user i;
\* only user 1 exists, so post 2 and later ones have no known author.
SessionPostLists == {[i \in 1 .. n |-> Post(i, i)] : n \in 0 .. MaxPosts}
SessionUserLists == {<<User(1, "Bret")>>}

\* What GET /comments?postId=<id> may answer with when it succeeds.
CommentResponses(postId) == {<< >>, <<Comment(postId, 1)>>}

\* What the initial await may throw: fetch rejects with a TypeError.
Thrown == {[isError |-> TRUE, message |-> "Failed to fetch"]}

VARIABLES
    api,        \* what the server serves: [posts, users]
    mounted,    \* the mount effect has run fetchInitialData to its end
    posts,      \* useState posts: the contents of the array the cell holds
    loading,    \* useState loading
    error,      \* useState error: string | null
    newPost,    \* useState newPost
    rendered,   \* the posts as the committed render shows them
    calls,      \* handleToggleComments calls suspended at their await
    issued,     \* history: per post id, comment fetches issued so far
    loaded,     \* history: per post id, the comments its last successful
                \* fetch stored and whether the clicks on it since are even
    pair,       \* history: progress of two overlapping fetches (see PairAfter)
    lastOp      \* history: the operation that produced this state

vars == <<api, mounted, posts, loading, error, newPost, rendered, calls,
          issued, loaded, pair, lastOp>>

Op(op, id, result) == [op |-> op, id |-> id, result |-> result]

\* ----------------------------------------------------- initial load

\* usersMap = new Map(usersData.map(user => [user.id, user.username])):
\* a later entry with the same key replaces the earlier one.
RECURSIVE MapOf(_)
MapOf(usersData) ==
    IF usersData = << >> THEN << >>
    ELSE LET rest == MapOf(SubSeq(usersData, 1, Len(usersData) - 1))
             last == usersData[Len(usersData)]
         IN  [k \in DOMAIN rest \cup {last.id} |->
                 IF k = last.id THEN last.username ELSE rest[k]]

\* usersMap.get(key): the value, or undefined.
MapGet(map, key) == IF key \in DOMAIN map THEN Some(map[key]) ELSE Undefined

\* usersMap.get(post.userId) || 'Usuário Desconhecido'
UsernameOf(usersMap, post) ==
    LET got == MapGet(usersMap, post.userId)
    IN  IF got # Undefined /\ TruthyString(got[1]) THEN got[1] ELSE UnknownUser

\* postsData.map(post => ({...post, username: ...})): the comment fields
\* are not set, so they are undefined.
Combine(postsData, usersData) ==
    LET usersMap == MapOf(usersData)
    IN  [i \in DOMAIN postsData |->
            [id |-> postsData[i].id,
             userId |-> postsData[i].userId,
             title |-> postsData[i].title,
             body |-> postsData[i].body,
             username |-> UsernameOf(usersMap, postsData[i]),
             comments |-> Undefined,
             commentsLoading |-> Undefined,
             areCommentsVisible |-> Undefined]]

\* catch (e): e.message of an Error, the fixed text otherwise.
ErrorMessage(e) == IF e.isError THEN e.message ELSE UnknownError

\* fetchInitialData, both responses ok.
FetchInitialDataOk ==
    /\ ~mounted
    /\ mounted' = TRUE
    /\ posts' = Combine(api.posts, api.users)
    /\ rendered' = posts'
    /\ loading' = FALSE
    /\ lastOp' = Op("load", 0, Undefined)
    /\ UNCHANGED <<api, error, newPost, calls, issued, loaded, pair>>

\* fetchInitialData, a response that is not ok: throw new Error(`HTTP error!`).
FetchInitialDataHttpError ==
    /\ ~mounted
    /\ \E postsOk, usersOk \in BOOLEAN :
          /\ ~postsOk \/ ~usersOk
          /\ error' = Some(ErrorMessage([isError |-> TRUE, message |-> HttpError]))
    /\ mounted' = TRUE
    /\ loading' = FALSE
    /\ lastOp' = Op("error", 0, Undefined)
    /\ UNCHANGED <<api, posts, newPost, rendered, calls, issued, loaded, pair>>

\* Mutant of FetchInitialDataThrow: the catch block swallows the error.
FetchInitialDataThrow_Swallowed ==
    /\ ~mounted
    /\ mounted' = TRUE
    /\ loading' = FALSE
    /\ lastOp' = Op("error", 0, Undefined)
    /\ UNCHANGED <<api, posts, error, newPost, rendered, calls, issued, loaded, pair>>
\* fetchInitialData, Promise.all rejects.
FetchInitialDataThrow ==
    /\ ~mounted
    /\ \E e \in Thrown : error' = Some(ErrorMessage(e))
    /\ mounted' = TRUE
    /\ loading' = FALSE
    /\ lastOp' = Op("error", 0, Undefined)
    /\ UNCHANGED <<api, posts, newPost, rendered, calls, issued, loaded, pair>>

\* The feed (inputs, cards and buttons) is on screen.
FeedShown == ~loading /\ ~TruthyError(error)

\* ------------------------------------------------------- new post form

\* What e.target.value holds when a field of the form changes.  One value is
\* enough: whatever the text, setNewPost stores a new object and the
\* component renders again.
FieldValues == {""}

\* handleNewPostChange: setNewPost with a new object, so the component
\* renders again and the screen shows the array the posts cell holds.
HandleNewPostChange ==
    /\ FeedShown
    /\ \E name \in {"title", "body"}, value \in FieldValues :
          newPost' = [newPost EXCEPT ![name] = value]
    /\ rendered' = posts
    /\ lastOp' = Op("change", 0, Undefined)
    /\ UNCHANGED <<api, mounted, posts, loading, error, calls, issued, loaded, pair>>

\* ------------------------------------------------- handleToggleComments

\* Mutant of FindIndex: an id that is not found gives the first index.
FindIndex_OrFirst(list, postId) ==
    IF \E i \in DOMAIN list : list[i].id = postId
    THEN CHOOSE i \in DOMAIN list :
            /\ list[i].id = postId
            /\ \A j \in 1 .. i - 1 : list[j].id # postId
    ELSE IF list = << >> THEN 0 ELSE 1
\* posts.findIndex(p => p.id === postId): the first index, 0 for -1.
FindIndex(list, postId) ==
    IF \E i \in DOMAIN list : list[i].id = postId
    THEN CHOOSE i \in DOMAIN list :
            /\ list[i].id = postId
            /\ \A j \in 1 .. i - 1 : list[j].id # postId
    ELSE 0

\* { ...currentPost, areCommentsVisible: !currentPost.areCommentsVisible }
FlipWrite(currentPost) ==
    [currentPost EXCEPT
        !.areCommentsVisible = Some(~TruthyBool(currentPost.areCommentsVisible))]

\* Mutant of LoadingWrite: the comments section is opened while loading.
LoadingWrite_Visible(currentPost) ==
    [currentPost EXCEPT !.commentsLoading = Some(TRUE),
                        !.areCommentsVisible = Some(TRUE)]
\* { ...currentPost, commentsLoading: true }
LoadingWrite(currentPost) == [currentPost EXCEPT !.commentsLoading = Some(TRUE)]

\* Mutant of SuccessWrite: the success write leaves commentsLoading true.
SuccessWrite_StillLoading(currentPost, commentsData) ==
    [currentPost EXCEPT
        !.comments = Some(commentsData),
        !.commentsLoading = Some(TRUE),
        !.areCommentsVisible = Some(TRUE)]
\* { ...currentPost, comments: commentsData, commentsLoading: false, areCommentsVisible: true }
SuccessWrite(currentPost, commentsData) ==
    [currentPost EXCEPT
        !.comments = Some(commentsData),
        !.commentsLoading = Some(FALSE),
        !.areCommentsVisible = Some(TRUE)]

\* Mutant of FailureWrite: the catch block leaves the loading flag set.
FailureWrite_StillLoading(currentPost) == LoadingWrite(currentPost)
\* { ...currentPost, commentsLoading: false }
FailureWrite(currentPost) == [currentPost EXCEPT !.commentsLoading = Some(FALSE)]

\* The array a suspended call completes into: its own updatedPosts, built
\* before the await, with the element at its own postIndex replaced.
CompletedPosts(call, item) == [call.updatedPosts EXCEPT ![call.postIndex] = item]

\* No suspended call's array is the array of the state cell any more.
Superseded(cs) == [k \in DOMAIN cs |-> [cs[k] EXCEPT !.isCurrent = FALSE]]

Remove(s, k) == [j \in 1 .. Len(s) - 1 |-> IF j < k THEN s[j] ELSE s[j + 1]]

RECURSIVE SumOver(_, _)
SumOver(f, S) ==
    IF S = {} THEN 0
    ELSE LET x == CHOOSE y \in S : TRUE IN f[x] + SumOver(f, S \ {x})

\* Comment fetches issued so far, all posts together.
TotalIssued == SumOver(issued, PostIds)

\* ---- history of the session (read by the properties, never by the code)

\* The item of post id in list has no comments and is not loading.
Absent(list, id) ==
    LET i == FindIndex(list, id)
    IN  /\ i # 0
        /\ list[i].comments = Undefined
        /\ ~TruthyBool(list[i].commentsLoading)

\* The item of post id in list has comments and is not loading.
Loaded(list, id) ==
    LET i == FindIndex(list, id)
    IN  /\ i # 0
        /\ list[i].comments # Undefined
        /\ ~TruthyBool(list[i].commentsLoading)

PairOff == << <<"off", 0>> >>

\* pair follows one scenario: from a collection with no fetch in flight, the
\* fetch of an Absent post starts, then the fetch of another Absent post,
\* then one of the two completes, then the other; pair is the list of these
\* operations so far.  Any other operation on the collection in between
\* ends the scenario (PairOff) until a fetch next starts with none in flight.
PairAfter(op, id) ==
    CASE op = "fetch" ->
            IF calls = << >> /\ Absent(posts, id) THEN << <<op, id>> >>
            ELSE IF /\ Len(pair) = 1
                    /\ pair[1][1] = "fetch"
                    /\ pair[1][2] # id
                    /\ Absent(posts, id)
                 THEN Append(pair, <<op, id>>)
                 ELSE PairOff
      [] op \in {"ok", "fail"} ->
            IF Len(pair) \in {2, 3} THEN Append(pair, <<op, id>>) ELSE PairOff
      [] OTHER -> PairOff

\* A click on the button of post id: one more toggle of it.
Clicked(id) ==
    loaded' = IF loaded[id] = Undefined THEN loaded
                 ELSE [loaded EXCEPT ![id] = Some([@[1] EXCEPT !.even = ~@])]

\* Mutant of ButtonEnabled: the button is never disabled.
ButtonEnabled_Always(i) == TRUE
\* The button of card i is rendered with disabled={post.commentsLoading}.
ButtonEnabled(i) == ~TruthyBool(rendered[i].commentsLoading)

\* A click on the button of card i whose post has its comments: lines 75-83.
ToggleVisibility(i) ==
    /\ FeedShown
    /\ i \in DOMAIN rendered
    /\ ButtonEnabled(i)
    /\ LET postId == rendered[i].id
           postIndex == FindIndex(posts, postId)
       IN  /\ postIndex # 0
           /\ TruthyArray(posts[postIndex].comments)
           /\ posts' = [posts EXCEPT ![postIndex] = FlipWrite(posts[postIndex])]
           /\ Clicked(postId)
           /\ pair' = PairAfter("flip", postId)
           /\ lastOp' = Op("flip", postId, Undefined)
    /\ rendered' = posts'
    /\ calls' = Superseded(calls)
    /\ UNCHANGED <<api, mounted, loading, error, newPost, issued>>

\* A click on the button of card i whose post has no comments: lines 75-78
\* and 84-87, up to the await of the fetch.
StartFetch(i) ==
    /\ FeedShown
    /\ i \in DOMAIN rendered
    /\ ButtonEnabled(i)
    /\ TotalIssued < MaxFetches
    /\ LET postId == rendered[i].id
           postIndex == FindIndex(posts, postId)
       IN  /\ postIndex # 0
           /\ ~TruthyArray(posts[postIndex].comments)
           /\ LET currentPost == posts[postIndex]
                  updatedPosts == [posts EXCEPT ![postIndex] = LoadingWrite(currentPost)]
              IN  /\ posts' = updatedPosts
                  /\ calls' = Append(Superseded(calls),
                                     [postId |-> postId,
                                      postIndex |-> postIndex,
                                      currentPost |-> currentPost,
                                      updatedPosts |-> updatedPosts,
                                      isCurrent |-> TRUE])
           /\ issued' = [issued EXCEPT ![postId] = @ + 1]
           /\ Clicked(postId)
           /\ pair' = PairAfter("fetch", postId)
           /\ lastOp' = Op("fetch", postId, Undefined)
    /\ rendered' = posts'
    /\ UNCHANGED <<api, mounted, loading, error, newPost>>

\* onClick={() => handleToggleComments(post.id)} on card i, up to the return
\* or the await.
HandleToggleComments(i) == ToggleVisibility(i) \/ StartFetch(i)

\* An id that no post of any feed has.
AbsentIds == {MaxPosts + 1}

\* handleToggleComments(postId) called with an id that no item of the
\* collection has, up to the return or the await.  Line 76 returns when
\* findIndex gives -1; otherwise the handler goes on with the item at
\* postIndex, on the branch of line 79 or of line 84.
HandleToggleCommentsUnknown(postId) ==
    /\ \A j \in DOMAIN posts : posts[j].id # postId
    /\ LET postIndex == FindIndex(posts, postId)
       IN  IF postIndex = 0
           THEN UNCHANGED <<posts, rendered, calls>>
           ELSE LET currentPost == posts[postIndex]
                    fetches == ~TruthyArray(currentPost.comments)
                    updatedPosts ==
                        [posts EXCEPT ![postIndex] =
                            IF fetches THEN LoadingWrite(currentPost)
                                       ELSE FlipWrite(currentPost)]
                IN  /\ fetches => Len(calls) < MaxFetches
                    /\ posts' = updatedPosts
                    /\ rendered' = posts'
                    /\ calls' = IF fetches
                                THEN Append(Superseded(calls),
                                            [postId |-> postId,
                                             postIndex |-> postIndex,
                                             currentPost |-> currentPost,
                                             updatedPosts |-> updatedPosts,
                                             isCurrent |-> TRUE])
                                ELSE Superseded(calls)
    /\ lastOp' = Op("unknown", postId, Undefined)
    /\ UNCHANGED <<api, mounted, loading, error, newPost, issued, loaded, pair>>

\* setPosts(updatedPosts) after the await.  The call wrote into its own
\* array; when that array is the one the state cell already holds, React
\* sees the same reference and does not render again.
Publish(k, item) ==
    /\ posts' = CompletedPosts(calls[k], item)
    /\ rendered' = IF calls[k].isCurrent THEN rendered ELSE posts'
    /\ calls' = Remove(Superseded(calls), k)

\* The fetch of suspended call k answers ok with commentsData: lines 89-91.
FetchSucceeds(k) ==
    /\ k \in DOMAIN calls
    /\ \E commentsData \in CommentResponses(calls[k].postId) :
          /\ Publish(k, SuccessWrite(calls[k].currentPost, commentsData))
          /\ loaded' = [loaded EXCEPT ![calls[k].postId] =
                            Some([comments |-> commentsData, even |-> TRUE])]
          /\ lastOp' = Op("ok", calls[k].postId, Some(commentsData))
    /\ pair' = PairAfter("ok", calls[k].postId)
    /\ UNCHANGED <<api, mounted, loading, error, newPost, issued>>

\* Mutant of FetchFails: the catch block also reports the failure in the
\* global error.
FetchFails_SetsError(k) ==
    /\ k \in DOMAIN calls
    /\ Publish(k, FailureWrite(calls[k].currentPost))
    /\ error' = Some("Failed to fetch")
    /\ lastOp' = Op("fail", calls[k].postId, Undefined)
    /\ pair' = PairAfter("fail", calls[k].postId)
    /\ UNCHANGED <<api, mounted, loading, newPost, issued, loaded>>
\* The fetch of suspended call k rejects or answers not ok: lines 92-96.
FetchFails(k) ==
    /\ k \in DOMAIN calls
    /\ Publish(k, FailureWrite(calls[k].currentPost))
    /\ lastOp' = Op("fail", calls[k].postId, Undefined)
    /\ pair' = PairAfter("fail", calls[k].postId)
    /\ UNCHANGED <<api, mounted, loading, error, newPost, issued, loaded>>

\* -------------------------------------------------------- specification

InitState ==
    /\ mounted = FALSE
    /\ posts = << >>
    /\ loading = TRUE
    /\ error = Undefined
    /\ newPost = [title |-> "", body |-> ""]
    /\ rendered = << >>
    /\ calls = << >>
    /\ issued = [id \in PostIds |-> 0]
    /\ loaded = [id \in PostIds |-> Undefined]
    /\ pair = << >>
    /\ lastOp = Op("mount", 0, Undefined)

Init ==
    /\ api \in [posts : SessionPostLists, users : SessionUserLists]
    /\ InitState

Next ==
    \/ FetchInitialDataOk
    \/ FetchInitialDataHttpError
    \/ FetchInitialDataThrow
    \/ HandleNewPostChange
    \/ \E i \in 1 .. MaxPosts : HandleToggleComments(i)
    \/ \E k \in 1 .. MaxFetches : FetchSucceeds(k)
    \/ \E k \in 1 .. MaxFetches : FetchFails(k)

Spec == Init /\ [][Next]_vars

\* The session with, besides, calls of the handler with an id that no
\* item has.
NextUnknownId ==
    \/ Next
    \/ \E postId \in AbsentIds : HandleToggleCommentsUnknown(postId)

SpecUnknownId == Init /\ [][NextUnknownId]_vars

\* The initial load alone, over every bounded answer of the server.
InitAggregate ==
    /\ api \in [posts : AllPostLists, users : AllUserLists]
    /\ InitState

NextAggregate ==
    \/ FetchInitialDataOk
    \/ FetchInitialDataHttpError
    \/ FetchInitialDataThrow

SpecAggregate == InitAggregate /\ [][NextAggregate]_vars

\* The session when the initial requests settle: the timer of line 49 fires
\* and each of the two fetches of lines 50-53 answers or rejects, so
\* fetchInitialData runs to its finally block.
SpecSettles == Spec /\ WF_vars(NextAggregate)

\* ------------------------------------------------------------ properties

Item(list, id) == list[FindIndex(list, id)]
Lifecycle(item) == <<item.comments, item.commentsLoading, item.areCommentsVisible>>
Static(item) == <<item.id, item.userId, item.title, item.body, item.username>>
InFlight(id) == {k \in DOMAIN calls : calls[k].postId = id}
\* The post ids whose button was clicked so far: the first click on a post
\* finds no comments and issues a fetch.
Toggled(fetches) == {id \in PostIds : fetches[id] > 0}
IsToggle(op) == op.op \in {"flip", "fetch"}
IsCompletion(op) == op.op \in {"ok", "fail"}

\* C1 (as claimed): two posts a and b are toggled from Absent so that both
\* fetches are in flight together, a's fetch fails and b's succeeds; after
\* both completions, in either order, a is Absent and b is Loaded and visible.
C1_FailureIsolation ==
    \A a, b \in PostIds :
        ( /\ a # b
          /\ Len(pair) = 4
          /\ {pair[1], pair[2]} = {<<"fetch", a>>, <<"fetch", b>>}
          /\ {pair[3], pair[4]} = {<<"fail", a>>, <<"ok", b>>} )
        => /\ Absent(posts, a)
           /\ Loaded(posts, b)
           /\ Item(posts, b).areCommentsVisible = Some(TRUE)

\* C2 (as claimed): every step of handleToggleComments(postId), the flip, the
\* mark-loading write, the success write and the failure write, leaves the
\* comments, commentsLoading and areCommentsVisible of every other post as
\* they were in the collection just before the step.
C2_IdTargetedMutation ==
    [][ (IsToggle(lastOp') \/ IsCompletion(lastOp'))
        => \A j \in DOMAIN posts :
              posts[j].id # lastOp'.id
              => /\ j \in DOMAIN posts'
                 /\ posts'[j].id = posts[j].id
                 /\ Lifecycle(posts'[j]) = Lifecycle(posts[j]) ]_vars

\* C3 (as claimed): while the toggles of a session are all on one post id,
\* the comment fetch for that id is issued at most once, whatever its outcome.
C3_AtMostOneFetch ==
    \A x \in PostIds : Toggled(issued) \subseteq {x} => issued[x] <= 1

\* C3 (amended): while the toggles of a session are all on one post id, at
\* most one fetch for that id is in flight at any time, and once a fetch for
\* it has succeeded no further fetch for it is issued.  (A fetch that failed
\* is followed by another at the next toggle.)
C3_OneFetchUntilSuccess ==
    [][ \A x \in PostIds :
            Toggled(issued') \subseteq {x}
            => /\ Cardinality({k \in DOMAIN calls' : calls'[k].postId = x}) <= 1
               /\ loaded[x] # Undefined => issued'[x] = issued[x] ]_vars

\* C3 witness: only post 1 was toggled; its fetch was issued twice (the first
\* failed), the second succeeded, and a later toggle flipped visibility.
C3_Witness ==
    /\ Toggled(issued) = {1}
    /\ issued[1] = 2
    /\ loaded[1] # Undefined
    /\ lastOp = Op("flip", 1, Undefined)

\* C4 (as claimed): once a fetch for post x has succeeded and stored a
\* comments value, no later step issues another comment fetch for x.
C4_NoFetchAfterCacheFill ==
    [][ \A x \in PostIds : loaded[x] # Undefined => issued'[x] = issued[x] ]_vars

\* C5 (as claimed): a comments value present in the shared collection is
\* present, with the same value, after every later step.
C5_CacheNeverDiscarded ==
    [][ \A j \in DOMAIN posts :
            posts[j].comments # Undefined
            => /\ j \in DOMAIN posts'
               /\ posts'[j].id = posts[j].id
               /\ posts'[j].comments = posts[j].comments ]_vars

\* C6 (as claimed): while a comment fetch for post x is in flight, a toggle
\* of x issues no fetch and leaves the shared collection as it was.
C6_ReentrantToggleNoOp ==
    [][ \A x \in PostIds :
            (InFlight(x) # {} /\ IsToggle(lastOp') /\ lastOp'.id = x)
            => /\ posts' = posts
               /\ issued' = issued ]_vars

\* C7 (as claimed): right after the N-th toggle of a post since its comments
\* were loaded, the toggle was a flip and not a fetch, the post still has the
\* comments that were loaded, and it is visible exactly when N is even.
C7_ShowHideParity ==
    \A x \in PostIds :
        (IsToggle(lastOp) /\ lastOp.id = x /\ loaded[x] # Undefined)
        => /\ lastOp.op = "flip"
           /\ Item(posts, x).comments = Some(loaded[x][1].comments)
           /\ Item(posts, x).areCommentsVisible = Some(loaded[x][1].even)

\* C8: a failed comment fetch of post x leaves x with commentsLoading false,
\* no comments and areCommentsVisible not true; and a toggle of a post that
\* has no comments (as x after the failure) issues a fetch for that post.
C8_FailureRetryable ==
    [][ /\ lastOp'.op = "fail"
           => LET item == Item(posts', lastOp'.id)
              IN  /\ item.commentsLoading = Some(FALSE)
                  /\ item.comments = Undefined
                  /\ item.areCommentsVisible # Some(TRUE)
        /\ (IsToggle(lastOp') /\ Item(posts, lastOp'.id).comments = Undefined)
           => /\ lastOp'.op = "fetch"
              /\ issued'[lastOp'.id] = issued[lastOp'.id] + 1
              /\ \E k \in DOMAIN calls' : calls'[k].postId = lastOp'.id ]_vars

\* C8 witness: only post 1 was toggled, its first fetch failed, and the
\* toggle after the failure has just issued the second fetch.
C8_Witness ==
    /\ Toggled(issued) = {1}
    /\ issued[1] = 2
    /\ loaded[1] = Undefined
    /\ lastOp = Op("fetch", 1, Undefined)
    /\ Item(posts, 1).areCommentsVisible # Some(TRUE)

\* C9: a successful comment fetch of post x with result R publishes x with
\* comments R, commentsLoading false and areCommentsVisible true and leaves
\* id, userId, title, body and username as they were; and a toggle of a post
\* whose comments are present, the empty list included, flips its visibility
\* and issues no fetch.
C9_SuccessTransition ==
    [][ /\ lastOp'.op = "ok"
           => LET item == Item(posts', lastOp'.id)
              IN  /\ item.comments = lastOp'.result
                  /\ item.commentsLoading = Some(FALSE)
                  /\ item.areCommentsVisible = Some(TRUE)
                  /\ Static(item) = Static(Item(posts, lastOp'.id))
        /\ (IsToggle(lastOp') /\ Item(posts, lastOp'.id).comments # Undefined)
           => /\ lastOp'.op = "flip"
              /\ issued' = issued
              /\ Item(posts', lastOp'.id).areCommentsVisible
                    = Some(~TruthyBool(Item(posts, lastOp'.id).areCommentsVisible))
              /\ Item(posts', lastOp'.id).comments = Item(posts, lastOp'.id).comments ]_vars

\* C9 witness: the fetch of post 1 succeeded with the empty list, and the
\* next toggle of post 1 has just hidden it without a second fetch.
C9_Witness ==
    /\ lastOp = Op("flip", 1, Undefined)
    /\ loaded[1] = Some([comments |-> << >>, even |-> FALSE])
    /\ Item(posts, 1).comments = Some(<< >>)
    /\ Item(posts, 1).areCommentsVisible = Some(FALSE)
    /\ issued[1] = 1

\* The username the join is to give a post: that of the last user with the
\* post's userId, the sentinel when there is none.
ExpectedUsername(post, usersData) ==
    LET ks == {k \in DOMAIN usersData : usersData[k].id = post.userId}
    IN  IF ks = {} THEN UnknownUser
        ELSE usersData[CHOOSE k \in ks : \A m \in ks : m <= k].username

\* C10 (as claimed): the combined list has the length and the order of post
\* ids of the post list, and each username is that of the (last) user whose
\* id is the post's userId, an empty username included, or the sentinel
\* exactly when no user has that id.
C10_AggregationCorrectness ==
    lastOp.op = "load"
    => /\ Len(posts) = Len(api.posts)
       /\ \A i \in DOMAIN posts :
             /\ posts[i].id = api.posts[i].id
             /\ posts[i].username = ExpectedUsername(api.posts[i], api.users)

\* C11 (as claimed): an item of the shared collection has commentsLoading
\* true only while a comment fetch issued for its id has not yet completed.
C11_LoadingTracksInFlight ==
    \A j \in DOMAIN posts :
        TruthyBool(posts[j].commentsLoading) => InFlight(posts[j].id) # {}

\* C12 (as claimed): a collection already passed to setPosts is never
\* modified afterwards.  The array a completing call passes to setPosts is
\* its updatedPosts, the array it passed to setPosts before the await; so at
\* a completion that array still has the contents it was first published with.
C12_CopyOnWrite ==
    [][ IsCompletion(lastOp')
        => \A k \in DOMAIN calls :
              calls' = Remove(Superseded(calls), k)
              => posts' = calls[k].updatedPosts ]_vars

\* C13: the failure of a comment fetch changes neither the global error nor
\* the global loading state, nor the length, the order or the identity (id,
\* userId, title, body, username) of the posts of the collection; and once
\* the initial load has succeeded the global error stays null.
C13_FailureStaysLocal ==
    [][ /\ lastOp'.op = "fail"
           => /\ error' = error
              /\ loading' = loading
              /\ Len(posts') = Len(posts)
              /\ \A j \in DOMAIN posts : Static(posts'[j]) = Static(posts[j])
        /\ (mounted /\ error = Undefined) => error' = Undefined ]_vars

\* C13 witness: with two posts on screen after a successful load, a comment
\* fetch has just failed; the feed is still shown, with no global error.
C13_Witness ==
    /\ lastOp.op = "fail"
    /\ mounted
    /\ Len(posts) = 2
    /\ error = Undefined
    /\ ~loading

\* C14: the initial load is all-or-nothing and terminal on failure.  When it
\* fails the posts collection stays empty and the global error is set to a
\* message; the error is never cleared and the load is never run again;
\* when it succeeds no error is set.  In both cases the loading flag becomes
\* false, once the requests settle, and never returns to true.
C14_InitialLoadTerminal ==
    /\ [][ /\ lastOp'.op = "error"
              => /\ ~mounted
                 /\ posts' = << >>
                 /\ error' # Undefined
                 /\ ~loading'
           /\ lastOp'.op = "load"
              => /\ ~mounted
                 /\ error' = Undefined
                 /\ ~loading'
           /\ error # Undefined => (error' = error /\ posts' = << >>)
           /\ mounted => (mounted' /\ lastOp'.op \notin {"load", "error"})
           /\ loading' # loading => (loading /\ ~mounted) ]_vars
    /\ <>[](~loading)

\* C14 witness: one of the two responses was not ok; the load has ended
\* with no posts, the message of the thrown Error, and loading false.
C14_Witness ==
    /\ lastOp.op = "error"
    /\ mounted
    /\ posts = << >>
    /\ error = Some(HttpError)
    /\ ~loading

\* C15 (as claimed): once every issued comment fetch has completed, the
\* collection has no item with commentsLoading true.  (With no fetch in
\* flight only a toggle changes the collection; so if toggles have stopped,
\* a state with no loading item is reached only if this state is one.)
C15_Quiescence ==
    calls = << >> => \A j \in DOMAIN posts : posts[j].commentsLoading # Some(TRUE)

\* C16: in the shared collection, and in the collection on screen, every
\* item with areCommentsVisible true has a comments value; so the
\* new-comment area and the label 'Ocultar Comentarios', which test
\* areCommentsVisible alone, are never shown for an item without comments.
C16_VisibleImpliesLoaded ==
    \A list \in {posts, rendered} :
        \A j \in DOMAIN list :
            TruthyBool(list[j].areCommentsVisible) => list[j].comments # Undefined

\* C16 witness: two posts; post 2 is shown with its comments while post 1,
\* toggled as well, has none and is hidden.
C16_Witness ==
    /\ Len(posts) = 2
    /\ rendered = posts
    /\ posts[2].areCommentsVisible = Some(TRUE)
    /\ posts[2].comments # Undefined
    /\ issued[1] > 0
    /\ posts[1].comments = Undefined
    /\ ~TruthyBool(posts[1].areCommentsVisible)

\* C17: in the shared collection, and in the collection on screen, no item
\* has commentsLoading true and a comments value at the same time.
C17_LoadingExcludesLoaded ==
    \A list \in {posts, rendered} :
        \A j \in DOMAIN list :
            ~(TruthyBool(list[j].commentsLoading) /\ list[j].comments # Undefined)

\* C17 witness: post 1 has its comments, the empty list, and is not loading,
\* while post 2 is loading and has none.
C17_Witness ==
    /\ Len(posts) = 2
    /\ posts[1].comments = Some(<< >>)
    /\ posts[1].commentsLoading = Some(FALSE)
    /\ posts[2].commentsLoading = Some(TRUE)
    /\ posts[2].comments = Undefined
    /\ InFlight(2) # {}

\* C18: a call of handleToggleComments with an id that no item of the
\* collection has issues no fetch and publishes nothing: the collection, the
\* screen, the calls in flight and the count of fetches are as before.
C18_UnknownIdNoOp ==
    [][ lastOp'.op = "unknown"
        => /\ \A j \in DOMAIN posts : posts[j].id # lastOp'.id
           /\ posts' = posts
           /\ rendered' = rendered
           /\ calls' = calls
           /\ issued' = issued ]_vars

\* C18 witness: the handler was just called with an id no item has, while
\* two posts are on screen and a comment fetch is in flight.
C18_Witness ==
    /\ lastOp.op = "unknown"
    /\ Len(posts) = 2
    /\ calls # << >>
    /\ \A j \in DOMAIN posts : posts[j].id # lastOp.id

====
